---- MODULE Spec2Model ----
(***************************************************************************)
(* Model of the Driver and Order mongoose models of drivefair.api          *)
(* (src/server/models/driver.js, src/server/models/order.js).              *)
(*                                                                         *)
(* A mongoose document lives twice: as the in-memory document a method is  *)
(* called on (driver, order) and as the stored record (driverDB, orderDB). *)
(* A call is made on a document its caller has just loaded from the store; *)
(* the method mutates the document and `save()` copies it to the store; a  *)
(* rejected save leaves the store as it was and the document changed.      *)
(* driver and order hold the documents as the last call left them.         *)
(* Every awaited persistence or transport call may reject; which one does  *)
(* is an input of the call (the `failAt` parameter of each action).        *)
(***************************************************************************)
EXTENDS Integers, Sequences, FiniteSets, TLC

VARIABLES driver, driverDB, orderVendor, order, orderDB, orderItemDB,
          nextItemId, messages, last, calls

vars == <<driver, driverDB, orderVendor, order, orderDB, orderItemDB,
          nextItemId, messages, last, calls>>

-----------------------------------------------------------------------------
(* Bounds of the model *)

MaxRoute == 2
MaxMessages == 1
MaxItems == 2

-----------------------------------------------------------------------------
(* Identifiers and input domains *)

DriverId == "d1"
Orders == {"o1", "o2", "o3"}
Vendors == {"v1", "v2"}
NoVendor == "undefined"
NoDriver == "undefined"
NoTip == -1
Undefined == "<undefined>"

Statuses == {"ACTIVE", "INACTIVE"}
Dispositions == {"NEW", "PAID", "COMPLETE", "CANCELED", "DELIVERED"}

\* Order.tip of the stored orders, in cents: 5.00, 5.50, and an order
\* without a tip (the path has no default and is not required)
OrderTip == [o \in Orders |-> CASE o = "o1" -> 500 [] o = "o2" -> 550 [] OTHER -> NoTip]

\* the `setting` argument: absent, empty, or a category name
Settings == {Undefined, "", "REQUEST_DRIVER", "CHAT", "ACCOUNT", "PROMO"}

\* notificationSettings: the schema default, REQUEST_DRIVER switched off, REQUEST_DRIVER unset
NotificationMaps ==
  { [REQUEST_DRIVER |-> TRUE, CHAT |-> TRUE],
    [REQUEST_DRIVER |-> FALSE, CHAT |-> TRUE],
    [CHAT |-> TRUE] }

\* device tokens a client can register
Tokens == {"t1", "t2", "t3"}

EmailCategories == {"ACCOUNT", "PROMO", "ORDER"}

\* emailSettings: every partial map from the email categories to booleans
EmailMaps ==
  UNION { [dom -> BOOLEAN] : dom \in SUBSET EmailCategories }

RECURSIVE SeqsUpTo(_, _)
SeqsUpTo(S, n) ==
  IF n = 0 THEN {<<>>}
  ELSE LET shorter == SeqsUpTo(S, n - 1)
       IN  shorter \cup { Append(s, x) : s \in shorter, x \in S }

NoDup(s) == \A i, j \in 1..Len(s) : i /= j => s[i] /= s[j]

\* driver.orders: duplicate-free lists of order references
Routes == { r \in SeqsUpTo(Orders, MaxRoute) : NoDup(r) }

\* Order.vendor of the stored orders: every assignment of vendors up to
\* renaming the vendors (o1 is v1's), and orders that carry no vendor (the
\* path is not required) beside one that does
OrderVendorMaps ==
  { f \in [Orders -> Vendors] : f["o1"] = "v1" }
    \cup { [o \in Orders |-> IF o = "o1" THEN "v1" ELSE NoVendor] }

-----------------------------------------------------------------------------
(* Return values.  kind is "value" (a success value), "error" (a           *)
(* structured {error: ...} object), "undefined" (the function ran off its  *)
(* end) or "throw" (the returned promise rejected).                        *)

Ret(kind, message, errorString, functionName, status, value, msg) ==
  [kind |-> kind, message |-> message, errorString |-> errorString,
   functionName |-> functionName, status |-> status, value |-> value,
   msg |-> msg]

Absent == "<absent>"
NoStatus == 0

\* {error: {message, status?, functionName?}}
Refusal(message, functionName, status) ==
  Ret("error", message, Absent, functionName, status, Absent, 0)

\* {error: {errorString, functionName, status?}} built in a catch block
Caught(cause, functionName, status) ==
  Ret("error", Absent, cause, functionName, status, Absent, 0)

Thrown(cause) == Ret("throw", Absent, cause, Absent, NoStatus, Absent, 0)

ReturnsUndefined == Ret("undefined", Absent, Absent, Absent, NoStatus, Absent, 0)

Value(v) == Ret("value", Absent, Absent, Absent, NoStatus, v, 0)

\* a persisted Message document, the element of `messages` at index i
SavedMessage(i) == Ret("value", Absent, Absent, Absent, NoStatus, "Message", i)

\* what a call left behind: the operation, its arguments, its return value,
\* whether it invoked the mail transport, and the size of the Message
\* collection before it ran
Call(op, arg, ret, mailed) ==
  [op |-> op, arg |-> arg, ret |-> ret, mailed |-> mailed,
   before |-> Len(messages)]

-----------------------------------------------------------------------------
(* driverSchema.methods.toggleStatus *)

\* the route check off by one
ToggleRefusedOffByOne(d, status) == Len(d.orders) > 1 /\ status = "INACTIVE"

ToggleRefused(d, status) == Len(d.orders) /= 0 /\ status = "INACTIVE"

\* the Driver document as loaded from the store
LoadDriver ==
  [driver EXCEPT !.status = driverDB.status,
                 !.deviceTokens = driverDB.deviceTokens]

\* this.save() of a Driver document d
SaveDriver(d) == [status |-> d.status, deviceTokens |-> d.deviceTokens]

toggleStatus(status, failAt) ==
  IF ToggleRefused(LoadDriver, status)
  THEN /\ driver' = LoadDriver
       /\ last' = Call("toggleStatus", <<status>>,
                       Refusal("There are still active orders on your route!",
                               "toggleStatus", 418), FALSE)
       /\ UNCHANGED <<driverDB, orderVendor, order, orderDB, orderItemDB,
                      nextItemId, messages, calls>>
  ELSE /\ driver' = [LoadDriver EXCEPT !.status = status]
       /\ IF failAt = "save"
          THEN /\ driverDB' = driverDB
               /\ last' = Call("toggleStatus", <<status>>, Thrown("save"), FALSE)
          ELSE /\ driverDB' = SaveDriver(driver')
               /\ last' = Call("toggleStatus", <<status>>, Value(status), FALSE)
       /\ UNCHANGED <<orderVendor, order, orderDB, orderItemDB, nextItemId,
                      messages, calls>>

-----------------------------------------------------------------------------
(* driverSchema.methods.addDeviceToken *)

\* a pull that removes nothing
PullNothing(s, x) == s

\* MongooseArray.pull: every element equal to x is removed
Pull(s, x) == SelectSeq(s, LAMBDA y : y /= x)

addDeviceToken(deviceToken, failAt) ==
  /\ driver' = [LoadDriver EXCEPT
                  !.deviceTokens = Append(Pull(driverDB.deviceTokens, deviceToken),
                                          deviceToken)]
  /\ IF failAt = "save"
     THEN /\ driverDB' = driverDB
          /\ last' = Call("addDeviceToken", <<deviceToken>>, Thrown("save"), FALSE)
     ELSE /\ driverDB' = SaveDriver(driver')
          /\ last' = Call("addDeviceToken", <<deviceToken>>, Value("Driver"), FALSE)
  /\ UNCHANGED <<orderVendor, order, orderDB, orderItemDB, nextItemId, messages, calls>>

-----------------------------------------------------------------------------
(* Notification Settings Gate: property lookups on the settings objects *)

\* a template literal / property key renders undefined as "undefined"
ToStr(setting) == IF setting = Undefined THEN "undefined" ELSE setting

\* undefined and the empty string are the falsy values a setting can take
Truthy(setting) == setting \notin {Undefined, ""}

\* map[setting] read as a condition: an unset key reads undefined
Lookup(map, setting) ==
  ToStr(setting) \in DOMAIN map /\ map[ToStr(setting)]

\* without the ACCOUNT bypass
EmailAllowedNoBypass(d, setting) == Lookup(d.emailSettings, setting)

EmailAllowed(d, setting) ==
  Lookup(d.emailSettings, setting) \/ setting = "ACCOUNT"

\* without the `setting &&` guard
NotificationAllowedUnguarded(d, setting) ==
  Lookup(d.notificationSettings, setting)

NotificationAllowed(d, setting) ==
  Truthy(setting) /\ Lookup(d.notificationSettings, setting)

-----------------------------------------------------------------------------
(* driverSchema.methods.sendEmail *)

sendEmail(setting, failAt) ==
  /\ last' =
       IF EmailAllowed(LoadDriver, setting)
       THEN IF failAt = "sendMail"
            THEN Call("sendEmail", <<setting>>,
                      Caught("sendMail", "sendEmail", 200), TRUE)
            ELSE Call("sendEmail", <<setting>>, Value("deliveryResult"), TRUE)
       ELSE Call("sendEmail", <<setting>>,
                 Refusal("Driver has turned off email setting: " \o ToStr(setting),
                         Absent, 200), FALSE)
  /\ driver' = LoadDriver
  /\ UNCHANGED <<driverDB, orderVendor, order, orderDB, orderItemDB,
                 nextItemId, messages, calls>>

-----------------------------------------------------------------------------
(* driverSchema.methods.sendMessage *)

\* a Message that carries no device tokens
NewMessageWithoutTokens(d, title, body, data, senderId, senderModel) ==
  [messageType |-> data.messageType, recipient |-> DriverId,
   recipientModel |-> "Driver", sender |-> senderId,
   senderModel |-> senderModel, title |-> title, body |-> body,
   data |-> data, deviceTokens |-> <<>>]

NewMessage(d, title, body, data, senderId, senderModel) ==
  [messageType |-> data.messageType, recipient |-> DriverId,
   recipientModel |-> "Driver", sender |-> senderId,
   senderModel |-> senderModel, title |-> title, body |-> body,
   data |-> data, deviceTokens |-> d.deviceTokens]

\* the return value and the Message collection after this.sendMessage({...});
\* hasData is false when the caller passed no data object (data.messageType throws)
SendMessage(d, setting, title, body, hasData, data, senderId, senderModel, failAt) ==
  IF NotificationAllowed(d, setting)
  THEN IF ~hasData
       THEN [ret |-> Caught("TypeError", "sendMessage", 200), msgs |-> messages]
       ELSE IF failAt = "save"
       THEN [ret |-> Caught("save", "sendMessage", 200), msgs |-> messages]
       ELSE [ret |-> SavedMessage(Len(messages) + 1),
             msgs |-> Append(messages,
                             NewMessage(d, title, body, data, senderId, senderModel))]
  ELSE [ret |-> Refusal("Driver has turned off notification setting: "
                          \o ToStr(setting), Absent, 200),
        msgs |-> messages]

ChatData == [orderId |-> Absent, messageType |-> "CHAT", openModal |-> Absent,
             businessName |-> Absent, tip |-> Absent]

sendMessage(setting, hasData, failAt) ==
  LET r == SendMessage(LoadDriver, setting, "New message", "Hello", hasData,
                       ChatData, "c1", "Customer", failAt)
  IN  /\ Len(r.msgs) <= MaxMessages
      /\ messages' = r.msgs
      /\ last' = Call("sendMessage", <<setting>>, r.ret, FALSE)
      /\ driver' = LoadDriver
      /\ UNCHANGED <<driverDB, orderVendor, order, orderDB, orderItemDB,
                     nextItemId, calls>>

-----------------------------------------------------------------------------
(* Number.prototype.toString for a tip held in cents (order.tip.toString()) *)

Digit(n) == <<"0", "1", "2", "3", "4", "5", "6", "7", "8", "9">>[n + 1]

RECURSIVE IntToString(_)
IntToString(n) ==
  IF n < 10 THEN Digit(n) ELSE IntToString(n \div 10) \o Digit(n % 10)

\* toFixed(2) in place of toString()
NumberToFixed(cents) ==
  IntToString(cents \div 100) \o "." \o Digit((cents % 100) \div 10)
    \o Digit(cents % 10)

NumberToString(cents) ==
  LET whole == cents \div 100
      frac  == cents % 100
  IN  IF frac = 0 THEN IntToString(whole)
      ELSE IF frac % 10 = 0
           THEN IntToString(whole) \o "." \o Digit(frac \div 10)
           ELSE IntToString(whole) \o "." \o Digit(frac \div 10) \o Digit(frac % 10)

-----------------------------------------------------------------------------
(* ObjectId references.  A reference path of a hydrated document holds an  *)
(* ObjectId object, and !== on two objects compares their identity: every  *)
(* document instance carries its own ObjectId objects.  An unset path      *)
(* reads undefined, a primitive.                                           *)

ObjectIdOf(oid, documentInstance) ==
  IF oid = NoVendor
  THEN [oid |-> "undefined", inst |-> "primitive"]
  ELSE [oid |-> oid, inst |-> documentInstance]

StrictNotEqual(a, b) == a /= b

\* this.orders[0].vendor after this.populate("orders"): a freshly hydrated Order
RouteVendor(d) == ObjectIdOf(orderVendor[d.orders[1]], "populated:" \o d.orders[1])

\* order.vendor of the Order document the caller passed
ArgVendor(o) == ObjectIdOf(orderVendor[o.id], "argument:" \o o.id)

-----------------------------------------------------------------------------
(* driverSchema.methods.requestDriver *)

\* the order documents a caller can pass: a stored order, with or without
\* a driver on it
OrderArgs ==
  { [id |-> o, driver |-> d, tip |-> OrderTip[o]] :
      o \in Orders, d \in {NoDriver, "d2"} }

\* refusing only an order assigned to this very driver
AssignedToThisDriver(o) == o.driver = DriverId

AlreadyAssigned(o) == o.driver /= NoDriver

\* === in place of !==
VendorMatch(d, o) == RouteVendor(d) = ArgVendor(o)

VendorMismatch(d, o) == StrictNotEqual(RouteVendor(d), ArgVendor(o))

\* offline only while on a route
OfflineOnRoute(d) == d.status = "INACTIVE" /\ Len(d.orders) /= 0

Offline(d) == d.status = "INACTIVE"

RequestData(o) ==
  [orderId |-> o.id, messageType |-> "REQUEST_DRIVER", openModal |-> "true",
   businessName |-> orderVendor[o.id], tip |-> NumberToString(o.tip)]

RequestDriver(d, o, failAt) ==
  IF AlreadyAssigned(o)
  THEN [ret |-> Refusal("Order already has a driver assigned.", Absent, NoStatus),
        msgs |-> messages]
  ELSE IF Len(d.orders) /= 0 /\ failAt = "populateOrders"
  THEN [ret |-> Caught("populate", "requestDriver", NoStatus), msgs |-> messages]
  ELSE IF Len(d.orders) /= 0 /\ VendorMismatch(d, o)
  THEN [ret |-> Refusal("Driver is currently delivering for another vendor.",
                        Absent, NoStatus),
        msgs |-> messages]
  ELSE IF Offline(d)
  THEN [ret |-> Refusal("Driver is offline.", Absent, NoStatus), msgs |-> messages]
  ELSE IF failAt = "populateOrder"
  THEN [ret |-> Caught("populate", "requestDriver", NoStatus), msgs |-> messages]
  ELSE IF orderVendor[o.id] = NoVendor \/ o.tip = NoTip
  THEN [ret |-> Caught("TypeError", "requestDriver", NoStatus), msgs |-> messages]
  ELSE SendMessage(d, "REQUEST_DRIVER", "Incoming Order!",
                   "New order from " \o orderVendor[o.id] \o ".", TRUE,
                   RequestData(o), orderVendor[o.id], "Vendor", failAt)

\* requestDriver taking the order onto the driver's route when it dispatches
requestDriverAssigning(o, failAt) ==
  LET r == RequestDriver(LoadDriver, o, failAt)
  IN  /\ Len(r.msgs) <= MaxMessages
      /\ messages' = r.msgs
      /\ last' = Call("requestDriver", <<o.id, o.driver, o.tip>>, r.ret, FALSE)
      /\ driver' = [LoadDriver EXCEPT
                      !.orders = IF r.ret.kind = "value" /\ @ = <<>>
                                 THEN <<o.id>>
                                 ELSE @]
      /\ UNCHANGED <<driverDB, orderVendor, order, orderDB, orderItemDB,
                     nextItemId, calls>>

requestDriver(o, failAt) ==
  LET r == RequestDriver(LoadDriver, o, failAt)
  IN  /\ Len(r.msgs) <= MaxMessages
      /\ messages' = r.msgs
      /\ last' = Call("requestDriver", <<o.id, o.driver, o.tip>>, r.ret, FALSE)
      /\ driver' = LoadDriver
      /\ UNCHANGED <<driverDB, orderVendor, order, orderDB, orderItemDB,
                     nextItemId, calls>>

-----------------------------------------------------------------------------
(* driverSchema.methods.notifyOrderReady / notifyOrderCanceled *)

NotifyData(o, messageType) ==
  [orderId |-> o, messageType |-> messageType, openModal |-> "false",
   businessName |-> Absent, tip |-> Absent]

\* the dispatcher's result is awaited and discarded: the function returns
\* undefined unless building the arguments threw
NotifyOrderReady(d, vendor, o, failAt) ==
  IF vendor = NoVendor
  THEN [ret |-> Caught("TypeError", "notifyOrderReady", NoStatus), msgs |-> messages]
  ELSE [ret |-> ReturnsUndefined,
        msgs |-> SendMessage(d, "REQUEST_DRIVER", "Order up!",
                             "The order at " \o vendor \o " is ready.", TRUE,
                             NotifyData(o, "ORDER_READY"), vendor, "Vendor",
                             failAt).msgs]

NotifyOrderCanceled(d, vendor, o, failAt) ==
  IF vendor = NoVendor
  THEN [ret |-> Caught("TypeError", "notifyOrderCanceled", NoStatus), msgs |-> messages]
  ELSE [ret |-> ReturnsUndefined,
        msgs |-> SendMessage(d, "REQUEST_DRIVER", "Order canceled.",
                             "The order for " \o vendor \o " has been canceled.",
                             TRUE, NotifyData(o, "ORDER_CANCELED"), vendor,
                             "Vendor", failAt).msgs]

notifyOrderReady(vendor, o, failAt) ==
  LET r == NotifyOrderReady(LoadDriver, vendor, o, failAt)
  IN  /\ Len(r.msgs) <= MaxMessages
      /\ messages' = r.msgs
      /\ last' = Call("notifyOrderReady", <<o>>, r.ret, FALSE)
      /\ driver' = LoadDriver
      /\ UNCHANGED <<driverDB, orderVendor, order, orderDB, orderItemDB,
                     nextItemId, calls>>

notifyOrderCanceled(vendor, o, failAt) ==
  LET r == NotifyOrderCanceled(LoadDriver, vendor, o, failAt)
  IN  /\ Len(r.msgs) <= MaxMessages
      /\ messages' = r.msgs
      /\ last' = Call("notifyOrderCanceled", <<o>>, r.ret, FALSE)
      /\ driver' = LoadDriver
      /\ UNCHANGED <<driverDB, orderVendor, order, orderDB, orderItemDB,
                     nextItemId, calls>>

-----------------------------------------------------------------------------
(* orderSchema.methods.addOrderItem *)

\* the items a caller can pass.  modsIsArray tells whether item.modifications
\* is a list of modification entries or one modification object; a
\* modification's optionsIsArray tells whether its options is a list of
\* options or one option object.  Prices are whole currency units.
Modification(optionsIsArray, prices) ==
  [optionsIsArray |-> optionsIsArray, options |-> prices]

Item(base, modsIsArray, mods) ==
  [menuItemPrice |-> base, modsIsArray |-> modsIsArray, modifications |-> mods]

Items ==
  { Item(10, TRUE, << Modification(TRUE, <<2, 1>>) >>),
    Item(1, TRUE, <<>>),
    Item(1, TRUE, << Modification(FALSE, <<2>>) >>),
    Item(1, FALSE, << Modification(TRUE, <<2>>) >>) }

RECURSIVE SumSeq(_)
SumSeq(s) == IF s = <<>> THEN 0 ELSE Head(s) + SumSeq(Tail(s))

\* a modification's surcharge: both branches of Array.isArray(options) add
\* Number(option.price) of every option present
Surcharge(modification) == SumSeq(modification.options)

\* item.price after the forEach over item.modifications
ItemPrice(item) ==
  item.menuItemPrice
    + SumSeq([i \in 1..Len(item.modifications) |-> Surcharge(item.modifications[i])])

\* item.modifications.forEach exists only on a list
ForEachThrows(item) == ~item.modsIsArray

LedgerCall(op, o, arg, ret) ==
  [op |-> op, arg |-> <<o, arg>>, ret |-> ret, mailed |-> FALSE,
   before |-> Len(messages)]

\* the Order document o as loaded from the store
LoadOrder(o) == orderDB[o]

\* the Order documents after a call on order o that left its document as doc:
\* every other document is as the store holds it
Documents(o, doc) == [p \in Orders |-> IF p = o THEN doc ELSE orderDB[p]]

addOrderItem(o, item, failAt) ==
  IF ForEachThrows(item)
  THEN /\ order' = Documents(o, LoadOrder(o))
       /\ last' = LedgerCall("addOrderItem", o, ItemPrice(item), Thrown("TypeError"))
       /\ UNCHANGED <<driver, driverDB, orderVendor, orderDB, orderItemDB,
                      nextItemId, messages, calls>>
  ELSE IF failAt = "saveOrderItem"
  THEN /\ order' = Documents(o, LoadOrder(o))
       /\ last' = LedgerCall("addOrderItem", o, ItemPrice(item), Thrown("save"))
       /\ UNCHANGED <<driver, driverDB, orderVendor, orderDB, orderItemDB,
                      nextItemId, messages, calls>>
  ELSE /\ nextItemId <= MaxItems
       /\ orderItemDB' = [i \in DOMAIN orderItemDB \cup {nextItemId} |->
                            IF i = nextItemId THEN ItemPrice(item)
                            ELSE orderItemDB[i]]
       /\ nextItemId' = nextItemId + 1
       /\ order' = Documents(o, [LoadOrder(o) EXCEPT
                                  !.orderItems = Append(@, nextItemId),
                                  !.total = @ + ItemPrice(item)])
       /\ IF failAt = "saveOrder"
          THEN /\ orderDB' = orderDB
               /\ last' = LedgerCall("addOrderItem", o, ItemPrice(item),
                                     Thrown("save"))
          ELSE /\ orderDB' = [orderDB EXCEPT ![o] = order'[o]]
               /\ last' = LedgerCall("addOrderItem", o, ItemPrice(item),
                                     Value("Order"))
       /\ UNCHANGED <<driver, driverDB, orderVendor, messages, calls>>

-----------------------------------------------------------------------------
(* orderSchema.methods.removeOrderItem *)

removeOrderItem(o, itemId, failAt) ==
  IF failAt = "findById"
  THEN /\ order' = Documents(o, LoadOrder(o))
       /\ last' = LedgerCall("removeOrderItem", o, itemId, Thrown("findById"))
       /\ UNCHANGED <<driver, driverDB, orderVendor, orderDB, orderItemDB,
                      nextItemId, messages, calls>>
  ELSE IF itemId \notin DOMAIN orderItemDB
  THEN \* findById resolved null: the pull is done, orderItem.price throws
       /\ order' = Documents(o, [LoadOrder(o) EXCEPT !.orderItems = Pull(@, itemId)])
       /\ last' = LedgerCall("removeOrderItem", o, itemId, Thrown("TypeError"))
       /\ UNCHANGED <<driver, driverDB, orderVendor, orderDB, orderItemDB,
                      nextItemId, messages, calls>>
  ELSE /\ order' = Documents(o, [LoadOrder(o) EXCEPT
                                  !.orderItems = Pull(@, itemId),
                                  !.total = @ - orderItemDB[itemId]])
       /\ IF failAt = "remove"
          THEN /\ last' = LedgerCall("removeOrderItem", o, itemId, Thrown("remove"))
               /\ UNCHANGED <<orderDB, orderItemDB, calls>>
          ELSE /\ orderItemDB' = [i \in DOMAIN orderItemDB \ {itemId} |->
                                    orderItemDB[i]]
               /\ IF failAt = "saveOrder"
                  THEN /\ orderDB' = orderDB
                       /\ last' = LedgerCall("removeOrderItem", o, itemId,
                                             Thrown("save"))
                  ELSE /\ orderDB' = [orderDB EXCEPT ![o] = order'[o]]
                       /\ last' = LedgerCall("removeOrderItem", o, itemId,
                                             Value("Order"))
       /\ UNCHANGED <<driver, driverDB, orderVendor, nextItemId, messages, calls>>

-----------------------------------------------------------------------------
(* orderSchema.methods.changeDisposition *)

\* {error, functionName}: error is the cause itself and functionName sits
\* beside it, not inside an error object
RawError(cause, functionName) ==
  Ret("error", Absent, cause, functionName, NoStatus, "cause", 0)

\* a setter that leaves a canceled or delivered order as it is
SetDispositionUnlessClosed(doc, disposition) ==
  IF doc.disposition \in {"CANCELED", "DELIVERED"}
  THEN doc
  ELSE [doc EXCEPT !.disposition = disposition]

\* this.disposition = disposition
SetDisposition(doc, disposition) == [doc EXCEPT !.disposition = disposition]

\* a changeDisposition call: the order, the disposition asked for, the
\* disposition the loaded document had, whether the save was rejected
DispositionCall(o, disposition, rejected, ret) ==
  [op |-> "changeDisposition",
   arg |-> <<o, disposition, LoadOrder(o).disposition, rejected>>,
   ret |-> ret, mailed |-> FALSE, before |-> Len(messages)]

changeDisposition(o, disposition, failAt) ==
  /\ order' = Documents(o, SetDisposition(LoadOrder(o), disposition))
  /\ IF failAt = "saveOrder"
     THEN /\ orderDB' = orderDB
          /\ last' = DispositionCall(o, disposition, TRUE,
                                     RawError("save", "changeDisposition"))
     ELSE /\ orderDB' = [orderDB EXCEPT ![o] = order'[o]]
          /\ last' = DispositionCall(o, disposition, FALSE, Value("Order"))
  /\ UNCHANGED <<driver, driverDB, orderVendor, orderItemDB, nextItemId,
                 messages, calls>>

-----------------------------------------------------------------------------
(* requestDriver as the event loop runs it: the function gives up control *)
(* at each await, and another invocation on the same driver can run       *)
(* between two of its steps                                                *)

\* the invocations in flight
Callers == {"c1", "c2"}

\* an invocation not made yet; passedAt is the size of the Message
\* collection when the invocation passed its last check
NotCalled ==
  [pc |-> "idle", o |-> [id |-> "none", driver |-> NoDriver, tip |-> NoTip],
   ret |-> ReturnsUndefined, passedAt |-> 0, pending |-> <<>>]

Returned(call, ret) == [call EXCEPT !.pc = "done", !.ret = ret]

\* a store that takes one REQUEST_DRIVER Message per recipient
SaveUnlessRequested(msgs, message) ==
  IF \E i \in 1..Len(msgs) : /\ msgs[i].recipient = message.recipient
                              /\ msgs[i].messageType = message.messageType
  THEN msgs
  ELSE Append(msgs, message)

\* message.save(): one more document in the Message collection
Save(msgs, message) == Append(msgs, message)

\* if (this.status === "INACTIVE") ... await order.populate(...)
OfflineCheck(d, call) ==
  IF Offline(d)
  THEN Returned(call, Refusal("Driver is offline.", Absent, NoStatus))
  ELSE [call EXCEPT !.pc = "populateOrder", !.passedAt = Len(messages)]

\* from the call to the first await
requestDriverCalled(c, o) ==
  /\ calls[c].pc = "idle"
  /\ calls' = [calls EXCEPT ![c] =
       IF AlreadyAssigned(o)
       THEN Returned([@ EXCEPT !.o = o],
                     Refusal("Order already has a driver assigned.", Absent,
                             NoStatus))
       ELSE IF Len(LoadDriver.orders) /= 0
       THEN [@ EXCEPT !.o = o, !.pc = "populateOrders"]
       ELSE OfflineCheck(LoadDriver, [@ EXCEPT !.o = o])]
  /\ UNCHANGED <<driver, driverDB, orderVendor, order, orderDB, orderItemDB,
                 nextItemId, messages, last>>

\* this.populate("orders") resolved
ordersPopulated(c) ==
  /\ calls[c].pc = "populateOrders"
  /\ calls' = [calls EXCEPT ![c] =
       IF VendorMismatch(LoadDriver, @.o)
       THEN Returned(@, Refusal("Driver is currently delivering for another vendor.",
                                Absent, NoStatus))
       ELSE OfflineCheck(LoadDriver, @)]
  /\ UNCHANGED <<driver, driverDB, orderVendor, order, orderDB, orderItemDB,
                 nextItemId, messages, last>>

\* order.populate(...) resolved: the notification is built and sendMessage
\* runs up to message.save()
orderPopulated(c) ==
  /\ calls[c].pc = "populateOrder"
  /\ LET call == calls[c]
         o    == calls[c].o
     IN  calls' = [calls EXCEPT ![c] =
           IF orderVendor[o.id] = NoVendor \/ o.tip = NoTip
           THEN Returned(call, Caught("TypeError", "requestDriver", NoStatus))
           ELSE IF ~NotificationAllowed(LoadDriver, "REQUEST_DRIVER")
           THEN Returned(call,
                         Refusal("Driver has turned off notification setting: "
                                   \o "REQUEST_DRIVER", Absent, 200))
           ELSE [call EXCEPT
                   !.pc = "save",
                   !.pending = << NewMessage(LoadDriver, "Incoming Order!",
                                             "New order from "
                                               \o orderVendor[o.id] \o ".",
                                             RequestData(o),
                                             orderVendor[o.id], "Vendor") >>]]
  /\ UNCHANGED <<driver, driverDB, orderVendor, order, orderDB, orderItemDB,
                 nextItemId, messages, last>>

\* message.save() resolved: the Message is in the collection and is returned
messageSaved(c) ==
  /\ calls[c].pc = "save"
  /\ messages' = Save(messages, calls[c].pending[1])
  /\ calls' = [calls EXCEPT ![c] = Returned(@, SavedMessage(Len(messages')))]
  /\ UNCHANGED <<driver, driverDB, orderVendor, order, orderDB, orderItemDB,
                 nextItemId, last>>

-----------------------------------------------------------------------------

\* an order created already paid
EmptyOrderPaid == [orderItems |-> <<>>, total |-> 0, disposition |-> "PAID"]

EmptyOrder == [orderItems |-> <<>>, total |-> 0, disposition |-> "NEW"]

DefaultNotificationSettings == [REQUEST_DRIVER |-> TRUE, CHAT |-> TRUE]

\* the stores every specification starts from
InitStores ==
  /\ driverDB = [status |-> driver.status, deviceTokens |-> driver.deviceTokens]
  /\ order = [o \in Orders |-> EmptyOrder]
  /\ orderDB = order
  /\ orderItemDB = <<>>
  /\ nextItemId = 1
  /\ messages = <<>>
  /\ last = Call("none", <<>>, ReturnsUndefined, FALSE)
  /\ calls = [c \in Callers |-> NotCalled]

-----------------------------------------------------------------------------
(* The assignment protocol: any driver, any route, any stored orders *)

Init ==
  /\ driver \in [status : Statuses, orders : Routes, orderHistory : {<<>>}, deviceTokens : {<<>>},
                 emailSettings : {<<>>}, notificationSettings : NotificationMaps]
  /\ orderVendor \in OrderVendorMaps
  /\ InitStores

Next ==
  \/ \E o \in OrderArgs,
        failAt \in {"none", "populateOrders", "populateOrder", "save"} :
       requestDriver(o, failAt)
  \/ \E o \in Orders, failAt \in {"none", "save"} :
       notifyOrderReady(orderVendor[o], o, failAt)
  \/ \E o \in Orders, failAt \in {"none", "save"} :
       notifyOrderCanceled(orderVendor[o], o, failAt)

Spec == Init /\ [][Next]_vars

-----------------------------------------------------------------------------
(* The dispatcher and the settings gate: any settings maps *)

\* notificationSettings is a free-form object: also one that holds the key
\* an absent setting would be looked up under
DispatchNotificationMaps ==
  NotificationMaps
    \cup { [REQUEST_DRIVER |-> TRUE, CHAT |-> FALSE, undefined |-> TRUE] }

InitDispatch ==
  /\ driver \in [status : {"ACTIVE"}, orders : {<<>>}, orderHistory : {<<>>}, deviceTokens : {<<>>},
                 emailSettings : EmailMaps,
                 notificationSettings : DispatchNotificationMaps]
  /\ orderVendor = [o \in Orders |-> "v1"]
  /\ InitStores

NextDispatch ==
  \/ \E setting \in Settings, hasData \in BOOLEAN, failAt \in {"none", "save"} :
       sendMessage(setting, hasData, failAt)
  \/ \E setting \in Settings, failAt \in {"none", "sendMail"} :
       sendEmail(setting, failAt)

SpecDispatch == InitDispatch /\ [][NextDispatch]_vars

-----------------------------------------------------------------------------
(* The driver's own profile operations: any status, route and token list *)

InitStatus ==
  /\ driver \in [status : Statuses, orders : Routes, orderHistory : {<<>>},
                 deviceTokens : { t \in SeqsUpTo(Tokens, Cardinality(Tokens)) : NoDup(t) },
                 emailSettings : {<<>>},
                 notificationSettings : {DefaultNotificationSettings}]
  /\ orderVendor = [o \in Orders |-> "v1"]
  /\ InitStores

NextStatus ==
  \/ \E status \in Statuses, failAt \in {"none", "save"} :
       toggleStatus(status, failAt)
  \/ \E deviceToken \in Tokens, failAt \in {"none", "save"} :
       addDeviceToken(deviceToken, failAt)

SpecStatus == InitStatus /\ [][NextStatus]_vars

-----------------------------------------------------------------------------
(* The item ledger: orders start empty, items are added and removed *)

LedgerOrders == {"o1", "o2"}

InitLedger ==
  /\ driver = [status |-> "INACTIVE", orders |-> <<>>, orderHistory |-> <<>>,
               deviceTokens |-> <<>>, emailSettings |-> <<>>,
               notificationSettings |-> DefaultNotificationSettings]
  /\ orderVendor = [o \in Orders |-> "v1"]
  /\ InitStores

NextLedger ==
  \/ \E o \in LedgerOrders, item \in Items,
        failAt \in {"none", "saveOrderItem", "saveOrder"} :
       addOrderItem(o, item, failAt)
  \/ \E o \in LedgerOrders, itemId \in 1..MaxItems,
        failAt \in {"none", "findById", "remove", "saveOrder"} :
       removeOrderItem(o, itemId, failAt)

SpecLedger == InitLedger /\ [][NextLedger]_vars

\* the ledger when every persistence call succeeds
NextLedgerReliable ==
  \/ \E o \in LedgerOrders, item \in Items : addOrderItem(o, item, "none")
  \/ \E o \in LedgerOrders, itemId \in 1..MaxItems :
       removeOrderItem(o, itemId, "none")

SpecLedgerReliable == InitLedger /\ [][NextLedgerReliable]_vars

-----------------------------------------------------------------------------
(* The order lifecycle: any disposition written over any other *)

\* the menu item ordered while dispositions change
LifecycleItems == {Item(10, TRUE, <<Modification(TRUE, <<2, 1>>)>>)}

NextLifecycle ==
  \/ \E o \in LedgerOrders, disposition \in Dispositions,
        failAt \in {"none", "saveOrder"} :
       changeDisposition(o, disposition, failAt)
  \/ \E item \in LifecycleItems : addOrderItem("o1", item, "none")
  \/ \E itemId \in 1..MaxItems : removeOrderItem("o1", itemId, "none")

SpecLifecycle == InitLedger /\ [][NextLifecycle]_vars

\* the Message collection under every operation of the two models: dispatches
\* (chat, driver request, order-ready and order-canceled notices) between
\* device registrations, status changes and order operations
AuditTokens == {"t1", "t2"}

InitAudit ==
  /\ driver = [status |-> "INACTIVE", orders |-> <<>>, orderHistory |-> <<>>,
               deviceTokens |-> <<>>, emailSettings |-> <<>>,
               notificationSettings |-> DefaultNotificationSettings]
  /\ orderVendor = [o \in Orders |-> "v1"]
  /\ InitStores

NextAudit ==
  \/ \E failAt \in {"none", "save"} : sendMessage("CHAT", TRUE, failAt)
  \/ \E failAt \in {"none", "save"} :
       requestDriver([id |-> "o1", driver |-> NoDriver, tip |-> OrderTip["o1"]],
                     failAt)
  \/ notifyOrderReady(orderVendor["o1"], "o1", "none")
  \/ notifyOrderCanceled(orderVendor["o1"], "o1", "none")
  \/ \E deviceToken \in AuditTokens : addDeviceToken(deviceToken, "none")
  \/ \E status \in Statuses : toggleStatus(status, "none")
  \/ \E disposition \in {"PAID", "CANCELED"} :
       changeDisposition("o1", disposition, "none")
  \/ \E item \in LifecycleItems : addOrderItem("o1", item, "none")
  \/ \E itemId \in 1..MaxItems : removeOrderItem("o1", itemId, "none")

SpecAudit == InitAudit /\ [][NextAudit]_vars

\* two requestDriver invocations on one driver, interleaved at their awaits
InitRace ==
  /\ driver \in [status : Statuses, orders : Routes, orderHistory : {<<>>}, deviceTokens : {<<>>},
                 emailSettings : {<<>>}, notificationSettings : NotificationMaps]
  /\ orderVendor \in OrderVendorMaps
  /\ InitStores

NextRace ==
  \/ \E c \in Callers, o \in OrderArgs : requestDriverCalled(c, o)
  \/ \E c \in Callers : ordersPopulated(c)
  \/ \E c \in Callers : orderPopulated(c)
  \/ \E c \in Callers : messageSaved(c)

SpecRace == InitRace /\ [][NextRace]_vars

-----------------------------------------------------------------------------
(* Properties *)

\* a persistence or transport call of the last call was rejected
PersistenceFailed(ret) ==
  ret.errorString \in {"populate", "save", "sendMail", "findById", "remove"}

\* C1: with a non-empty orders list toggleStatus("INACTIVE") returns the 418
\* refusal and leaves the status alone, in the document and in the store; and
\* no step of any operation changes the status to INACTIVE while the orders
\* list is non-empty.
C1_InactiveRefusedOnRoute ==
  [][ /\ ( /\ last'.op = "toggleStatus"
           /\ last'.arg = <<"INACTIVE">>
           /\ Len(driver.orders) /= 0 )
         => /\ last'.ret = Refusal("There are still active orders on your route!",
                                   "toggleStatus", 418)
            /\ driver'.status = driverDB.status
            /\ driverDB' = driverDB
      /\ Len(driver.orders) /= 0
         => /\ driverDB'.status /= driverDB.status => driverDB'.status /= "INACTIVE"
            /\ driver'.status /= driverDB.status => driver'.status /= "INACTIVE"
    ]_vars

C1_Witness ==
  /\ last.op = "toggleStatus"
  /\ last.arg = <<"INACTIVE">>
  /\ Len(driver.orders) /= 0
  /\ last.ret.status = 418
  /\ driver.status = "ACTIVE"
  /\ driverDB.status = "ACTIVE"

\* C2: requestDriver for an order that already has a driver returns the
\* "Order already has a driver assigned." refusal and persists no Message,
\* whatever the driver's status, orders and notification settings.
C2_AssignedOrderRefused ==
  [][ ( /\ last'.op = "requestDriver"
        /\ last'.arg[2] /= NoDriver )
      => /\ last'.ret = Refusal("Order already has a driver assigned.",
                                Absent, NoStatus)
         /\ messages' = messages
    ]_vars

C2_Witness ==
  /\ last.op = "requestDriver"
  /\ last.arg[2] /= NoDriver
  /\ last.ret.message = "Order already has a driver assigned."
  /\ driver.status = "ACTIVE"
  /\ driver.orders = <<>>
  /\ "REQUEST_DRIVER" \in DOMAIN driver.notificationSettings
  /\ driver.notificationSettings.REQUEST_DRIVER
  /\ orderVendor[last.arg[1]] \in Vendors
  /\ last.arg[3] /= NoTip

\* the driver's current orders reference vendor v
RouteReferences(v) ==
  \E i \in 1..Len(driver.orders) : orderVendor[driver.orders[i]] = v

\* C3: when the driver's current orders reference a vendor V, requestDriver
\* for an unassigned order of another vendor W persists no Message and, the
\* load of the driver's orders not being rejected, returns the "Driver is
\* currently delivering for another vendor." refusal.
C3_OtherVendorRefused ==
  [][ ( /\ last'.op = "requestDriver"
        /\ last'.arg[2] = NoDriver
        /\ orderVendor[last'.arg[1]] \in Vendors
        /\ \E v \in Vendors \ {orderVendor[last'.arg[1]]} : RouteReferences(v) )
      => /\ messages' = messages
         /\ ~PersistenceFailed(last'.ret)
            => last'.ret =
                 Refusal("Driver is currently delivering for another vendor.",
                         Absent, NoStatus)
    ]_vars

C3_Witness ==
  /\ last.op = "requestDriver"
  /\ last.arg[2] = NoDriver
  /\ orderVendor[last.arg[1]] = "v2"
  /\ RouteReferences("v1")
  /\ driver.status = "ACTIVE"
  /\ last.ret.message = "Driver is currently delivering for another vendor."

\* C4: for an ACTIVE driver with no orders and REQUEST_DRIVER enabled,
\* requestDriver on an unassigned order of vendor V (the order has a tip, no
\* persistence call is rejected) persists exactly one new Message, from
\* vendor V to the driver, of type REQUEST_DRIVER, with the tip as a string
\* (5.00 gives "5", 5.50 gives "5.5"), and returns that Message.
C4_RequestPersistsMessage ==
  [][ ( /\ last'.op = "requestDriver"
        /\ last'.arg[2] = NoDriver
        /\ orderVendor[last'.arg[1]] \in Vendors
        /\ last'.arg[3] /= NoTip
        /\ driver.status = "ACTIVE"
        /\ driver.orders = <<>>
        /\ "REQUEST_DRIVER" \in DOMAIN driver.notificationSettings
        /\ driver.notificationSettings.REQUEST_DRIVER
        /\ ~PersistenceFailed(last'.ret) )
      => /\ Len(messages') = Len(messages) + 1
         /\ SubSeq(messages', 1, Len(messages)) = messages
         /\ last'.ret = SavedMessage(Len(messages'))
         /\ LET m == messages'[Len(messages')]
            IN  /\ m.recipient = DriverId
                /\ m.recipientModel = "Driver"
                /\ m.sender = orderVendor[last'.arg[1]]
                /\ m.senderModel = "Vendor"
                /\ m.data.messageType = "REQUEST_DRIVER"
                /\ last'.arg[3] = 500 => m.data.tip = "5"
                /\ last'.arg[3] = 550 => m.data.tip = "5.5"
    ]_vars

C4_Witness ==
  /\ last.op = "requestDriver"
  /\ last.arg[3] = 500
  /\ driver.orders = <<>>
  /\ last.ret.kind = "value"
  /\ last.ret.msg = Len(messages)
  /\ last.before = Len(messages) - 1
  /\ messages[last.ret.msg].data.tip = "5"

\* C5: sendMessage with an absent or falsy setting persists no Message and
\* returns a refusal {error: {message, status: 200}}, whatever the driver's
\* notification settings.
C5_NoSettingRefused ==
  [][ ( /\ last'.op = "sendMessage"
        /\ last'.arg[1] \in {Undefined, ""} )
      => /\ messages' = messages
         /\ last'.ret.kind = "error"
         /\ last'.ret.message =
              ( IF last'.arg[1] = Undefined
                THEN "Driver has turned off notification setting: undefined"
                ELSE "Driver has turned off notification setting: " )
         /\ last'.ret.status = 200
         /\ last'.ret.errorString = Absent
         /\ last'.ret.functionName = Absent
    ]_vars

C5_Witness ==
  /\ last.op = "sendMessage"
  /\ last.arg = <<Undefined>>
  /\ last.ret.kind = "error"
  /\ last.ret.status = 200
  /\ "undefined" \in DOMAIN driver.notificationSettings
  /\ messages = <<>>

\* emailSettings holds category set to true
EmailCategoryOn(category) ==
  /\ category \in EmailCategories
  /\ category \in DOMAIN driver.emailSettings
  /\ driver.emailSettings[category]

\* C6: sendEmail with setting ACCOUNT invokes the mail transport whatever
\* emailSettings holds; with any other setting it invokes the transport only
\* when emailSettings[setting] is true and otherwise returns the email-setting
\* refusal without invoking it.
C6_AccountAlwaysMailed ==
  [][ last'.op = "sendEmail"
      => /\ last'.arg = <<"ACCOUNT">> => last'.mailed
         /\ last'.arg /= <<"ACCOUNT">>
            => /\ last'.mailed <=> EmailCategoryOn(last'.arg[1])
               /\ ~last'.mailed
                  => last'.ret =
                       Refusal("Driver has turned off email setting: "
                                 \o ToStr(last'.arg[1]), Absent, 200)
    ]_vars

C6_Witness ==
  /\ last.op = "sendEmail"
  /\ last.arg = <<"ACCOUNT">>
  /\ last.mailed
  /\ "ACCOUNT" \in DOMAIN driver.emailSettings
  /\ ~driver.emailSettings.ACCOUNT

\* the price of the OrderItem an order references; a reference to a deleted
\* OrderItem contributes nothing
PriceOf(itemId) ==
  IF itemId \in DOMAIN orderItemDB THEN orderItemDB[itemId] ELSE 0

SumOfItems(doc) ==
  SumSeq([i \in 1..Len(doc.orderItems) |-> PriceOf(doc.orderItems[i])])

\* C7: after any sequence of addOrderItem and removeOrderItem calls, with any
\* item ids passed to removeOrderItem, every order's total equals the sum of
\* the prices of the OrderItems its orderItems references (stated here for
\* the stored orders at every successful return).
C7_TotalIsSumOfItems ==
  last.ret.kind = "value"
    => \A o \in Orders : orderDB[o].total = SumOfItems(orderDB[o])

\* C8: when a persistence step of addOrderItem or removeOrderItem is rejected,
\* the stored OrderItems and the stored orders are what they were before the
\* call.
C8_NoPartialCommit ==
  [][ ( /\ last'.op \in {"addOrderItem", "removeOrderItem"}
        /\ PersistenceFailed(last'.ret) )
      => /\ orderItemDB' = orderItemDB
         /\ orderDB' = orderDB
    ]_vars

\* C9: no public operation propagates an exception to its caller, also when a
\* persistence or transport call is rejected: every call returns a success
\* value or a structured {error: ...} value.
C9_NoExceptionPropagates == last.ret.kind /= "throw"

\* C10: with REQUEST_DRIVER off or unset and every assignment check passed,
\* requestDriver, notifyOrderReady and notifyOrderCanceled return the
\* dispatcher's refusal as it is: message "Driver has turned off notification
\* setting: REQUEST_DRIVER", status 200.
C10_RefusalPassedThrough ==
  ( /\ ~( /\ "REQUEST_DRIVER" \in DOMAIN driver.notificationSettings
          /\ driver.notificationSettings.REQUEST_DRIVER )
    /\ \/ /\ last.op = "requestDriver"
          /\ last.arg[2] = NoDriver
          /\ driver.orders = <<>>
          /\ driver.status = "ACTIVE"
          /\ orderVendor[last.arg[1]] \in Vendors
          /\ last.arg[3] /= NoTip
          /\ ~PersistenceFailed(last.ret)
       \/ /\ last.op \in {"notifyOrderReady", "notifyOrderCanceled"}
          /\ orderVendor[last.arg[1]] \in Vendors )
  => last.ret = Refusal("Driver has turned off notification setting: REQUEST_DRIVER",
                        Absent, 200)


\* C11: from a duplicate-free token list, every addDeviceToken(t) leaves a
\* duplicate-free list whose last element is t and in which the other tokens
\* keep their relative order; a call with the token that is already last
\* leaves the list as it is; a successful call stores that list.
C11_TokenMovedToEnd ==
  [][ last'.op = "addDeviceToken"
      => LET t      == last'.arg[1]
             before == driverDB.deviceTokens
             after  == driver'.deviceTokens
         IN  /\ NoDup(after)
             /\ after /= <<>> /\ after[Len(after)] = t
             /\ Cardinality({ i \in 1..Len(after) : after[i] = t }) = 1
             /\ SubSeq(after, 1, Len(after) - 1)
                  = SelectSeq(before, LAMBDA x : x /= t)
             /\ (before /= <<>> /\ before[Len(before)] = t) => after = before
             /\ last'.ret.kind = "value" => driverDB'.deviceTokens = after
    ]_vars

C11_Witness ==
  /\ last.op = "addDeviceToken"
  /\ last.ret.kind = "value"
  /\ Len(driverDB.deviceTokens) = 3
  /\ driverDB.deviceTokens[3] = last.arg[1]
  /\ driverDB.deviceTokens[1] = "t3"


\* C12: from every prior disposition, changeDisposition(d) whose save is not
\* rejected sets disposition = d in the document and in the store and returns
\* the order; no transition is refused; when the save is rejected it returns
\* {error, functionName: "changeDisposition"}, nothing is thrown and the store
\* keeps the prior disposition.
C12_AnyDispositionAccepted ==
  [][ last'.op = "changeDisposition"
      => LET o        == last'.arg[1]
             d        == last'.arg[2]
             rejected == last'.arg[4]
         IN  /\ ~rejected
                => /\ orderDB'[o].disposition = d
                   /\ order'[o].disposition = d
                   /\ last'.ret = Value("Order")
             /\ rejected
                => /\ last'.ret.kind = "error"
                   /\ last'.ret.functionName = "changeDisposition"
                   /\ last'.ret.errorString = "save"
                   /\ orderDB'[o].disposition = orderDB[o].disposition
    ]_vars

C12_Witness ==
  /\ last.op = "changeDisposition"
  /\ last.arg[2] = "CANCELED"
  /\ last.arg[3] = "DELIVERED"
  /\ ~last.arg[4]
  /\ orderDB[last.arg[1]].disposition = "CANCELED"

\* position of a disposition in the lifecycle NEW -> PAID -> closing states
LifecycleRank(disposition) ==
  CASE disposition = "NEW" -> 0
    [] disposition = "PAID" -> 1
    [] OTHER -> 2

\* C13 as claimed: an order's disposition only advances along the lifecycle,
\* no step moves it back to an earlier state.
C13_OnlyForward ==
  [][ \A o \in Orders :
        LifecycleRank(orderDB'[o].disposition)
          >= LifecycleRank(orderDB[o].disposition) ]_vars

\* C13 as amended: an order is created NEW; its stored disposition changes
\* only in a changeDisposition call on that order, and then to the disposition
\* the caller gave, whatever the prior one was (back to NEW included).
C13_ChangedOnlyByExplicitCall ==
  /\ \A o \in Orders : orderDB[o].disposition = "NEW"
  /\ [][ \A o \in Orders :
           orderDB'[o].disposition /= orderDB[o].disposition
             => /\ last'.op = "changeDisposition"
                /\ last'.arg[1] = o
                /\ orderDB'[o].disposition = last'.arg[2] ]_vars

C13_Witness ==
  /\ last.op = "changeDisposition"
  /\ last.arg[2] = "NEW"
  /\ last.arg[3] = "DELIVERED"
  /\ orderDB[last.arg[1]].disposition = "NEW"
  /\ orderDB[last.arg[1]].orderItems /= <<>>


\* the price C14 gives an item: the base price plus the price of every
\* selected option of every modification entry
StatedPrice(item) ==
  item.menuItemPrice
    + SumSeq([i \in 1..Len(item.modifications) |->
                SumSeq(item.modifications[i].options)])

\* C14: addOrderItem(item), for item.modifications a list or a single
\* modification object and options a list or a single option, stores one new
\* OrderItem priced base + every option price, appends its reference to
\* order.orderItems and adds that price to order.total.
C14_PricedInEveryShape ==
  [][ \A o \in LedgerOrders, item \in Items :
        addOrderItem(o, item, "none")
          => /\ last'.ret = Value("Order")
             /\ nextItemId \notin DOMAIN orderItemDB
             /\ orderItemDB'[nextItemId] = StatedPrice(item)
             /\ orderDB'[o].orderItems = Append(orderDB[o].orderItems, nextItemId)
             /\ orderDB'[o].total = orderDB[o].total + StatedPrice(item)
    ]_vars


\* C15: requestDriver for an unassigned order, by a driver one of whose
\* current orders (the first or a later one) has a vendor different from the
\* order's, persists no Message and, the load of the driver's orders not
\* being rejected, returns the "Driver is currently delivering for another
\* vendor." refusal.
C15_AnyRouteOrderChecked ==
  [][ ( /\ last'.op = "requestDriver"
        /\ last'.arg[2] = NoDriver
        /\ \E i \in 1..Len(driver.orders) :
             orderVendor[driver.orders[i]] /= orderVendor[last'.arg[1]] )
      => /\ messages' = messages
         /\ ~PersistenceFailed(last'.ret)
            => last'.ret =
                 Refusal("Driver is currently delivering for another vendor.",
                         Absent, NoStatus)
    ]_vars


\* what a requestDriver invocation returns, whichever Message it saved
Outcome(ret) == [ret EXCEPT !.msg = 0]

\* C16: two requestDriver invocations on one driver do not affect each other,
\* however their steps interleave: each returns what it would have returned
\* running alone, and each one that passed the already-assigned, vendor and
\* offline checks with the notification on has its own Message in the
\* collection.  (C16_Witness: both pass the checks before either Message is
\* saved, for orders of two vendors, and both Messages are saved.)
C16_NothingSerializesRequests ==
  \A c \in Callers :
    calls[c].pc = "done"
      => LET alone == RequestDriver(LoadDriver, calls[c].o, "none").ret
         IN  /\ Outcome(calls[c].ret) = Outcome(alone)
             /\ alone.kind = "value"
                => /\ calls[c].ret.msg \in 1..Len(messages)
                   /\ messages[calls[c].ret.msg] = calls[c].pending[1]
                   /\ messages[calls[c].ret.msg].data.orderId = calls[c].o.id

C16_Witness ==
  /\ calls["c1"].pc = "done" /\ calls["c2"].pc = "done"
  /\ calls["c1"].ret.kind = "value" /\ calls["c2"].ret.kind = "value"
  /\ calls["c1"].passedAt = 0 /\ calls["c2"].passedAt = 0
  /\ orderVendor[calls["c1"].o.id] = "v1"
  /\ orderVendor[calls["c2"].o.id] = "v2"
  /\ Len(messages) = 2
  /\ messages[1].sender = "v2" /\ messages[2].sender = "v1"
  /\ messages[1].messageType = "REQUEST_DRIVER"
  /\ messages[2].messageType = "REQUEST_DRIVER"


\* the order document of the last requestDriver call
RequestedOrder(call) ==
  [id |-> call.arg[1], driver |-> call.arg[2], tip |-> call.arg[3]]

\* the vendor comparison of requestDriver refuses this call
VendorCheckFails(d, call) ==
  Len(d.orders) /= 0 /\ VendorMismatch(d, RequestedOrder(call))

\* C17: requestDriver checks already-assigned, then vendor affinity, then
\* offline, and dispatches only after the three: an assigned order gets the
\* already-assigned refusal whatever else holds; an unassigned order failing
\* the vendor check gets the vendor refusal even when the driver is INACTIVE;
\* an INACTIVE driver with an unassigned order passing the vendor check gets
\* "Driver is offline."; a refused call persists no Message; and a Message is
\* persisted only for an unassigned order, a passed vendor check and a status
\* other than INACTIVE.  (Calls whose load of the orders is rejected excepted.)
C17_ChecksInOrder ==
  [][ last'.op = "requestDriver"
      => LET assigned == last'.arg[2] /= NoDriver
             vendor   == VendorCheckFails(driver, last')
             offline  == driver.status = "INACTIVE"
         IN  /\ assigned
                => last'.ret = Refusal("Order already has a driver assigned.",
                                       Absent, NoStatus)
             /\ ~assigned /\ vendor /\ ~PersistenceFailed(last'.ret)
                => last'.ret
                     = Refusal("Driver is currently delivering for another vendor.",
                               Absent, NoStatus)
             /\ ~assigned /\ ~vendor /\ offline /\ ~PersistenceFailed(last'.ret)
                => last'.ret = Refusal("Driver is offline.", Absent, NoStatus)
             /\ assigned \/ vendor \/ offline => messages' = messages
             /\ messages' /= messages => ~assigned /\ ~vendor /\ ~offline
    ]_vars

C17_Witness ==
  /\ last.op = "requestDriver"
  /\ last.arg[2] = NoDriver
  /\ driver.status = "INACTIVE"
  /\ Len(driver.orders) = 2
  /\ last.ret = Refusal("Driver is offline.", Absent, NoStatus)
  /\ messages = <<>>


\* C18: a requestDriver, notifyOrderReady or notifyOrderCanceled call,
\* whatever it returns, leaves the driver's orders, orderHistory and status
\* (document and store) and every order (disposition included) as they were;
\* the Message collection is unchanged or has exactly one more Message at its
\* end.  (The Order schema has no driver path and these functions assign
\* nothing on the order passed.)
C18_NoAssignmentMutation ==
  [][ last'.op \in {"requestDriver", "notifyOrderReady", "notifyOrderCanceled"}
      => /\ driver'.orders = driver.orders
         /\ driver'.orderHistory = driver.orderHistory
         /\ driver'.status = driver.status
         /\ driverDB' = driverDB
         /\ order' = order
         /\ orderDB' = orderDB
         /\ orderVendor' = orderVendor
         /\ \/ messages' = messages
            \/ /\ Len(messages') = Len(messages) + 1
               /\ SubSeq(messages', 1, Len(messages)) = messages
    ]_vars

C18_Witness ==
  /\ last.op = "requestDriver"
  /\ last.ret.kind = "value"
  /\ Len(messages) = last.before + 1
  /\ driver.orders = <<>>
  /\ driver.status = "ACTIVE"
  /\ \A o \in Orders : orderDB[o].disposition = "NEW"


C20_SameVendorDispatched ==
  [][ ( /\ last'.op = "requestDriver"
        /\ last'.arg[2] = NoDriver
        /\ orderVendor[last'.arg[1]] \in Vendors
        /\ last'.arg[3] /= NoTip
        /\ Len(driver.orders) /= 0
        /\ \A i \in 1..Len(driver.orders) :
             orderVendor[driver.orders[i]] = orderVendor[last'.arg[1]] )
      => /\ last'.ret
              /= Refusal("Driver is currently delivering for another vendor.",
                         Absent, NoStatus)
         /\ ( /\ driver.status = "ACTIVE"
              /\ "REQUEST_DRIVER" \in DOMAIN driver.notificationSettings
              /\ driver.notificationSettings.REQUEST_DRIVER
              /\ ~PersistenceFailed(last'.ret) )
            => /\ last'.ret = SavedMessage(Len(messages) + 1)
               /\ Len(messages') = Len(messages) + 1
               /\ messages'[Len(messages')].messageType = "REQUEST_DRIVER"
    ]_vars

====
